---- MODULE Spec2Model ----
(***************************************************************************)
(* The register file of the GameBoy CPU (src/src/register.rs): eight 8-bit *)
(* cells A,F,B,C,D,E,H,L, two 16-bit cells SP,PC, the pair views AF,BC,    *)
(* DE,HL, the flag view over F and the power-up constructor.               *)
(*                                                                         *)
(* u8 and u16 values are naturals below 2^8 and 2^16; the bit operators of *)
(* the source (&, |, !, <<, >>, as u8) are computed arithmetically.        *)
(***************************************************************************)
EXTENDS Naturals, Sequences, FiniteSets

VARIABLES regs, last, nops

vars == <<regs, last, nops>>

----------------------------------------------------------------------------
(* Bounds of the exploration.                                              *)

\* How many of SampleWords are passed to set_af/set_bc/set_de/set_hl.
NumWords == 2

\* A duplicate is taken, and followed, within this many calls after power-up.
MaxOps == 4

\* 16-bit arguments.  0xA5C3 and 0x5A3C are bitwise complements, so every
\* bit position is written both as 0 and as 1; 0xFFFF and 0x0000 follow.
SampleWords == <<42435, 23100, 65535, 0>>

Min(m, n) == IF m < n THEN m ELSE n

Vals16 == {SampleWords[k] : k \in 1..Min(NumWords, Len(SampleWords))}

\* The value stored directly into the public fields a and f: 0x0F, a low
\* nibble no setter produces.
FieldVals(fld) == {15}

\* The two register files of a session: the CPU's own and a duplicate.
Inst == {1, 2}

----------------------------------------------------------------------------
(* Fixed-width arithmetic.                                                 *)

RECURSIVE BitAnd(_, _)
BitAnd(x, y) ==
    IF x = 0 \/ y = 0 THEN 0
    ELSE (x % 2) * (y % 2) + 2 * BitAnd(x \div 2, y \div 2)

RECURSIVE BitOr(_, _)
BitOr(x, y) ==
    IF x = 0 THEN y
    ELSE IF y = 0 THEN x
    ELSE (IF x % 2 = 1 \/ y % 2 = 1 THEN 1 ELSE 0) + 2 * BitOr(x \div 2, y \div 2)

\* !x on a u8
Not8(x) == 255 - x

\* x as u8
AsU8(x) == x % 256

\* x >> 8 and x << 8 on a u16
Shr8(x) == x \div 256
Shl8(x) == (x * 256) % 65536

----------------------------------------------------------------------------
(* struct Register, #[derive(Clone, Default)]                              *)

NoReg == [none |-> TRUE]

Fields == {"a", "f", "b", "c", "d", "e", "h", "l", "sp", "pc"}

\* Register::default(): every field zero.
DefaultReg ==
    [a |-> 0, f |-> 0, b |-> 0, c |-> 0, d |-> 0, e |-> 0, h |-> 0, l |-> 0,
     sp |-> 0, pc |-> 0]

\* Register::clone(): a new value, field by field.
clone(r) ==
    [a |-> r.a, f |-> r.f, b |-> r.b, c |-> r.c, d |-> r.d, e |-> r.e,
     h |-> r.h, l |-> r.l, sp |-> r.sp, pc |-> r.pc]

\* get_af without the shift of the high byte.
get_af_NoShift(r) == BitOr(r.a, r.f)

get_af(r) == BitOr(Shl8(r.a), r.f)
get_bc(r) == BitOr(Shl8(r.b), r.c)
get_de(r) == BitOr(Shl8(r.d), r.e)
get_hl(r) == BitOr(Shl8(r.h), r.l)

\* set_af with the mask of the other pairs.
set_af_FullByte(r, v) == [r EXCEPT !.a = AsU8(Shr8(v)), !.f = AsU8(BitAnd(v, 255))]

\* set_hl with the mask of set_af.
set_hl_Masked(r, v) == [r EXCEPT !.h = AsU8(Shr8(v)), !.l = AsU8(BitAnd(v, 240))]

\* set_de storing its low byte into l.
set_de_CopyPaste(r, v) == [r EXCEPT !.d = AsU8(Shr8(v)), !.l = AsU8(BitAnd(v, 255))]

set_af(r, v) == [r EXCEPT !.a = AsU8(Shr8(v)), !.f = AsU8(BitAnd(v, 240))]
set_bc(r, v) == [r EXCEPT !.b = AsU8(Shr8(v)), !.c = AsU8(BitAnd(v, 255))]
set_de(r, v) == [r EXCEPT !.d = AsU8(Shr8(v)), !.e = AsU8(BitAnd(v, 255))]
set_hl(r, v) == [r EXCEPT !.h = AsU8(Shr8(v)), !.l = AsU8(BitAnd(v, 255))]

Pairs == {"AF", "BC", "DE", "HL"}

get_pair(r, p) ==
    CASE p = "AF" -> get_af(r)
      [] p = "BC" -> get_bc(r)
      [] p = "DE" -> get_de(r)
      [] p = "HL" -> get_hl(r)

set_pair(r, p, v) ==
    CASE p = "AF" -> set_af(r, v)
      [] p = "BC" -> set_bc(r, v)
      [] p = "DE" -> set_de(r, v)
      [] p = "HL" -> set_hl(r, v)

----------------------------------------------------------------------------
(* enum Flag                                                               *)

Flag == {"Z", "N", "H", "C"}

\* The discriminants: Z = 0b1000_0000, N = 0b0100_0000, H = 0b0010_0000,
\* C = 0b0001_0000.
\* The discriminants of H and C exchanged.
FlagBits_Swapped(fl) ==
    CASE fl = "Z" -> 128
      [] fl = "N" -> 64
      [] fl = "H" -> 16
      [] fl = "C" -> 32

FlagBits(fl) ==
    CASE fl = "Z" -> 128
      [] fl = "N" -> 64
      [] fl = "H" -> 32
      [] fl = "C" -> 16

og(fl) == AsU8(FlagBits(fl))

\* bw without the complement.
bw_NoComplement(fl) == og(fl)

bw(fl) == Not8(og(fl))

get_flag(r, fl) == BitAnd(r.f, AsU8(FlagBits(fl))) # 0

\* set_flag storing the mask instead of or-ing it in.
set_flag_Assign(r, fl, v) ==
    IF v THEN [r EXCEPT !.f = og(fl)]
         ELSE [r EXCEPT !.f = BitAnd(r.f, bw(fl))]

set_flag(r, fl, v) ==
    IF v THEN [r EXCEPT !.f = BitOr(r.f, og(fl))]
         ELSE [r EXCEPT !.f = BitAnd(r.f, bw(fl))]

----------------------------------------------------------------------------
(* Register::power_up                                                      *)

Term == {"GB", "GBP", "GBC", "SGB"}

\* power_up with the GB value of A for every variant.
power_up_AllGB(term) ==
    [DefaultReg EXCEPT
        !.a = 1, !.f = 176, !.b = 0, !.c = 19, !.d = 0, !.e = 216, !.h = 1,
        !.l = 77, !.sp = 65534, !.pc = 256]

power_up(term) ==
    [DefaultReg EXCEPT
        !.a = CASE term = "GB"  -> 1
                [] term = "GBP" -> 255
                [] term = "GBC" -> 17
                [] term = "SGB" -> 1,
        !.f = 176,
        !.b = 0,
        !.c = 19,
        !.d = 0,
        !.e = 216,
        !.h = 1,
        !.l = 77,
        !.sp = 65534,
        !.pc = 256]

----------------------------------------------------------------------------
(* The state: regs[i] is register file i (NoReg before it exists), last is *)
(* the latest call and its arguments, nops counts the calls since the      *)
(* latest power-up, up to MaxOps.                                          *)

Call(op, i, sel, val) == [op |-> op, inst |-> i, sel |-> sel, val |-> val]

Live(i) == regs[i] # NoReg

Tick == Min(nops + 1, MaxOps)

\* While a duplicate exists the session is followed for MaxOps calls only.
Budget == ~Live(2) \/ nops < MaxOps

Init ==
    /\ regs = [i \in Inst |-> NoReg]
    /\ last = Call("none", 0, "", 0)
    /\ nops = 0

\* let r = Register::power_up(term)
PowerUp(i, term) ==
    /\ ~Live(2)
    /\ regs' = [regs EXCEPT ![i] = power_up(term)]
    /\ last' = Call("power_up", i, term, 0)
    /\ nops' = 0

\* let r = Register::default()
DefaultNew(i) ==
    /\ ~Live(2)
    /\ regs' = [regs EXCEPT ![i] = DefaultReg]
    /\ last' = Call("default", i, "", 0)
    /\ nops' = 0

\* set_pair on storage shared by every live register file.
SetPairShared(i, p, v) ==
    /\ Live(i)
    /\ Budget
    /\ regs' = [j \in Inst |-> IF Live(j) THEN set_pair(regs[j], p, v) ELSE regs[j]]
    /\ last' = Call("set_pair", i, p, v)
    /\ nops' = Tick

\* r.set_af(v), r.set_bc(v), r.set_de(v), r.set_hl(v)
SetPair(i, p, v) ==
    /\ Live(i)
    /\ Budget
    /\ regs' = [regs EXCEPT ![i] = set_pair(regs[i], p, v)]
    /\ last' = Call("set_pair", i, p, v)
    /\ nops' = Tick

\* r.set_flag(fl, v)
SetFlag(i, fl, v) ==
    /\ Live(i)
    /\ Budget
    /\ regs' = [regs EXCEPT ![i] = set_flag(regs[i], fl, v)]
    /\ last' = Call("set_flag", i, fl, IF v THEN 1 ELSE 0)
    /\ nops' = Tick

\* r.a = v, r.f = v: the fields are public
WriteField(i, fld, v) ==
    /\ Live(i)
    /\ Budget
    /\ regs' = [regs EXCEPT ![i][fld] = v]
    /\ last' = Call("write", i, fld, v)
    /\ nops' = Tick

\* let d = r.clone()
Duplicate(i, j) ==
    /\ Live(i)
    /\ i # j
    /\ nops < MaxOps
    /\ regs' = [regs EXCEPT ![j] = clone(regs[i])]
    /\ last' = Call("clone", j, "", i)
    /\ nops' = Tick

----------------------------------------------------------------------------
(* Spec: one register file, created by power_up and mutated by set_pair    *)
(* and set_flag only.                                                      *)

Next ==
    \/ \E term \in Term : PowerUp(1, term)
    \/ \E p \in Pairs, v \in Vals16 : SetPair(1, p, v)
    \/ \E fl \in Flag, v \in BOOLEAN : SetFlag(1, fl, v)

Spec == Init /\ [][Next]_vars

(* SpecApi: one register file under everything the type makes public:     *)
(* the derived Default and direct stores to the fields as well.            *)

NextApi ==
    \/ \E term \in Term : PowerUp(1, term)
    \/ DefaultNew(1)
    \/ \E p \in Pairs, v \in Vals16 : SetPair(1, p, v)
    \/ \E fl \in Flag, v \in BOOLEAN : SetFlag(1, fl, v)
    \/ \E fld \in {"a", "f"} : \E v \in FieldVals(fld) : WriteField(1, fld, v)

SpecApi == Init /\ [][NextApi]_vars

(* SpecDup: register file 1 is duplicated into 2 and both are mutated.     *)

NextDup ==
    \/ \E term \in Term : PowerUp(1, term)
    \/ Duplicate(1, 2)
    \/ \E i \in Inst : \E p \in Pairs, v \in Vals16 : SetPair(i, p, v)
    \/ \E i \in Inst : \E fl \in Flag, v \in BOOLEAN : SetFlag(i, fl, v)
    \/ \E i \in Inst : \E v \in FieldVals("a") : WriteField(i, "a", v)

SpecDup == Init /\ [][NextDup]_vars

----------------------------------------------------------------------------
(* The claims.  Expected values are computed by division and remainder,    *)
(* not by the operators of the model.                                      *)

\* Bit k of x, as 0 or 1.
Bit(x, k) == (x \div (2 ^ k)) % 2

\* x with the bit of mask m (a power of two) cleared.
Cleared(x, m) == x - ((x \div m) % 2) * m

\* The register file the latest call acted on.
Cur == regs[last.inst]

\* C1: in every state reached from power_up by set_pair and set_flag calls,
\* bits 3-0 of F are 0.
C1_FLowNibbleZero == \A i \in Inst : Live(i) => regs[i].f % 16 = 0

C1_Witness ==
    /\ last.op = "set_pair" /\ last.sel = "AF"
    /\ last.val % 16 # 0
    /\ Cur.f % 16 = 0

\* C2: after set_pair(AF, x), from any prior state, get_pair(AF) is x & 0xFFF0:
\* A holds x >> 8 and F holds x & 0x00F0.
C2_AFReadBack ==
    (last.op = "set_pair" /\ last.sel = "AF") =>
        /\ get_pair(Cur, "AF") = last.val - (last.val % 16)
        /\ Cur.a = last.val \div 256
        /\ Cur.f = (last.val % 256) - (last.val % 16)

C2_Witness ==
    /\ last.op = "set_pair" /\ last.sel = "AF"
    /\ last.val % 16 = 3
    /\ get_pair(Cur, "AF") = last.val - 3

\* C3: for P in {BC, DE, HL}, get_pair(P) right after set_pair(P, x), from
\* any prior state, is exactly x.
C3_PairRoundTrip ==
    (last.op = "set_pair" /\ last.sel \in {"BC", "DE", "HL"}) =>
        get_pair(Cur, last.sel) = last.val

C3_Witness ==
    /\ last.op = "set_pair" /\ last.sel = "HL"
    /\ last.val % 16 # 0
    /\ get_pair(Cur, "HL") = last.val
    /\ Cur.f % 16 # 0

\* C4: set_flag(X, v) leaves get_flag(Y) unchanged for the three other flags
\* Y and leaves every bit of F other than X's mask bit unchanged.
C4_FlagsIndependent ==
    [][last'.op = "set_flag" =>
        /\ \A Y \in Flag \ {last'.sel} :
              get_flag(regs'[last'.inst], Y) = get_flag(regs[last'.inst], Y)
        /\ \A k \in 0..7 :
              2 ^ k # FlagBits(last'.sel) =>
                  Bit(regs'[last'.inst].f, k) = Bit(regs[last'.inst].f, k)]_vars

\* N was cleared and the seven other bits of F are still set.
C4_Witness ==
    /\ last.op = "set_flag" /\ last.sel = "N" /\ last.val = 0
    /\ Cur.f = 191

\* C5: power_up yields F=0xB0, B=0x00, C=0x13, D=0x00, E=0xD8, H=0x01,
\* L=0x4D, SP=0xFFFE, PC=0x0100 for every variant and A = 0x01, 0xFF, 0x11,
\* 0x01 for GB, GBP, GBC, SGB; two variants differ at most in A and SGB's
\* state is GB's.
C5_PowerUpTable ==
    /\ last.op = "power_up" =>
          Cur = [a |-> CASE last.sel = "GB"  -> 1
                         [] last.sel = "GBP" -> 255
                         [] last.sel = "GBC" -> 17
                         [] last.sel = "SGB" -> 1,
                 f |-> 176, b |-> 0, c |-> 19, d |-> 0, e |-> 216, h |-> 1,
                 l |-> 77, sp |-> 65534, pc |-> 256]
    /\ \A t, u \in Term : \A fld \in Fields \ {"a"} : power_up(t)[fld] = power_up(u)[fld]
    /\ power_up("SGB") = power_up("GB")

C5_Witness ==
    /\ last.op = "power_up" /\ last.sel = "GBC"
    /\ Cur.a = 17 /\ Cur.f = 176 /\ Cur.sp = 65534

\* C6: after a duplication, a mutation (a store to field a, set_pair,
\* set_flag) of one copy leaves all ten cells of the other copy unchanged.
C6_CopiesIndependent ==
    [][\A i \in Inst :
          (last'.op \in {"set_pair", "set_flag", "write"} /\ last'.inst # i) =>
              regs'[i] = regs[i]]_vars

\* The duplicate's a was stored to and the original still has its own.
C6_Witness ==
    /\ Live(1) /\ Live(2)
    /\ last.op = "write" /\ last.sel = "a" /\ last.inst = 2
    /\ regs[2].a = 15
    /\ regs[1] = power_up("GBC")

\* C7: power_up is the only way a register file obtains its initial
\* contents: no exposed operation creates one in the all-zero state.
C7_OnlyPowerUpInitialises ==
    last.op \in {"power_up", "default"} => Cur \in {power_up(t) : t \in Term}

\* C8: get_flag(X) right after set_flag(X, v) is v; set_flag(X, true) sets
\* exactly X's mask bit of F and set_flag(X, false) clears exactly that bit.
C8_SetThenGet ==
    [][last'.op = "set_flag" =>
        /\ get_flag(regs'[last'.inst], last'.sel) = (last'.val = 1)
        /\ regs'[last'.inst].f =
              Cleared(regs[last'.inst].f, FlagBits(last'.sel))
                  + (IF last'.val = 1 THEN FlagBits(last'.sel) ELSE 0)]_vars

\* H was set in an F that had other bits set, and they are still set.
C8_Witness ==
    /\ last.op = "set_flag" /\ last.sel = "H" /\ last.val = 1
    /\ get_flag(Cur, "H")
    /\ Cur.f = 175

\* C9: the low byte of get_pair(AF) is 0x80*Z + 0x40*N + 0x20*H + 0x10*C of
\* get_flag; after set_pair(AF, x) the flags are bits 7, 6, 5, 4 of x; after
\* power_up they read Z, not N, H, C.
C9_FlagLayout ==
    /\ \A i \in Inst : Live(i) =>
          get_pair(regs[i], "AF") % 256 =
                128 * (IF get_flag(regs[i], "Z") THEN 1 ELSE 0)
              + 64  * (IF get_flag(regs[i], "N") THEN 1 ELSE 0)
              + 32  * (IF get_flag(regs[i], "H") THEN 1 ELSE 0)
              + 16  * (IF get_flag(regs[i], "C") THEN 1 ELSE 0)
    /\ (last.op = "set_pair" /\ last.sel = "AF") =>
          /\ get_flag(Cur, "Z") = (Bit(last.val, 7) = 1)
          /\ get_flag(Cur, "N") = (Bit(last.val, 6) = 1)
          /\ get_flag(Cur, "H") = (Bit(last.val, 5) = 1)
          /\ get_flag(Cur, "C") = (Bit(last.val, 4) = 1)
    /\ last.op = "power_up" =>
          /\ get_flag(Cur, "Z") /\ ~get_flag(Cur, "N")
          /\ get_flag(Cur, "H") /\ get_flag(Cur, "C")

\* set_pair(AF, 0x5A3C): H and C read set, Z and N clear.
C9_Witness ==
    /\ last.op = "set_pair" /\ last.sel = "AF" /\ last.val = 23100
    /\ ~get_flag(Cur, "Z") /\ ~get_flag(Cur, "N")
    /\ get_flag(Cur, "H") /\ get_flag(Cur, "C")

\* The cells of a pair.
PairCells(p) ==
    CASE p = "AF" -> {"a", "f"}
      [] p = "BC" -> {"b", "c"}
      [] p = "DE" -> {"d", "e"}
      [] p = "HL" -> {"h", "l"}

\* C10: set_pair(P, x) changes only the two cells of P and set_flag only F;
\* after any sequence of them from power_up SP is 0xFFFE and PC is 0x0100.
C10_Frame ==
    /\ [](Live(1) => regs[1].sp = 65534 /\ regs[1].pc = 256)
    /\ [][/\ last'.op = "set_pair" =>
               \A fld \in Fields \ PairCells(last'.sel) :
                   regs'[last'.inst][fld] = regs[last'.inst][fld]
          /\ last'.op = "set_flag" =>
               \A fld \in Fields \ {"f"} :
                   regs'[last'.inst][fld] = regs[last'.inst][fld]]_vars

\* set_pair(DE, 0xA5C3) right after power_up(GBC): D and E hold the value,
\* every other cell its power-up value.
C10_Witness ==
    /\ last.op = "set_pair" /\ last.sel = "DE"
    /\ Cur = [power_up("GBC") EXCEPT !.d = 165, !.e = 195]

====
